---- MODULE Spec2Model ----
(***************************************************************************)
(* The agora_governor program (programs/agora-solana/src/lib.rs): one      *)
(* Governor account, the Proposal and Vote accounts its instructions       *)
(* create, and the four instruction handlers initialize, create_proposal,  *)
(* cast_vote and execute_proposal.                                         *)
(*                                                                         *)
(* A handler is a pure operator from the accounts it is given and the      *)
(* clock to an outcome and the new account contents; the action of the     *)
(* same name applies it.  A transaction whose handler returns an error or  *)
(* panics (unwrap on None, division by zero) is rolled back by the         *)
(* runtime: no account changes.  `result` records the transaction of the   *)
(* last step, its outcome and whether the handler had written to an        *)
(* account when it returned (NoTransaction after any other step).          *)
(*                                                                         *)
(* Numbers are u64 in the program.  In Spec, SpecVotes and SpecLive every  *)
(* number is small enough that no u64 operation of the handlers overflows, *)
(* so the integer arithmetic there is the program's on every input they    *)
(* enumerate.  SpecU64 runs the same transactions on u64 values at their   *)
(* width, as byte sequences, up to u64::MAX.                               *)
(***************************************************************************)
EXTENDS Integers, Sequences, FiniteSets

VARIABLES
    governor,    \* the Governor account (lib.rs:185-194), or its absence
    proposals,   \* the Proposal accounts (lib.rs:197-208), in creation order
    votes,       \* the Vote accounts (lib.rs:211-216), in creation order
    clock,       \* Clock::get()?.slot
    oracle,      \* which voting-power table get_votes answers from
    emitted,     \* per Proposal account: ProposalExecuted events emitted for it
    result       \* the transaction of the last step and its outcome

vars == <<governor, proposals, votes, clock, oracle, emitted, result>>

(***************************************************************************)
(* Bounds of the model.                                                    *)
(***************************************************************************)
MaxSlot == 1
MaxAccounts == 2

(***************************************************************************)
(* Program constants.                                                      *)
(***************************************************************************)
BPS == 10000

(***************************************************************************)
(* Inputs.                                                                 *)
(***************************************************************************)
AdminKey == "admin"
ManagerKey == "manager"
Accounts == {"manager", "alice", "bob"}
Voters == {"alice", "bob"}
Electorate == {"alice", "bob", "carol"}
Delays == {0, 1}
Periods == {0, 1}
Thresholds == {150}
Supplies == {500}
QuorumSupplies == {500, 750}
Descriptions == {"d"}
TypeCodes == {0, 1}
ProposalIds == {0, 1}
Oracles == {"stub", "snapshot"}

\* struct ProposalType: quorum and approval_threshold in parts per 10000.
ProposalType(quorum, approval_threshold) ==
    [quorum |-> quorum, approval_threshold |-> approval_threshold]

StandardType == ProposalType(2000, 5000)

\* Contents the registry Vec<ProposalType> may be given.
Registries == {<<>>, <<StandardType>>}

None == <<>>
Some(x) == <<x>>

\* Outcomes of a transaction.
Ok == "Ok"
Panic == "Panic"

(***************************************************************************)
(* Voting power.  Governor::get_votes is the program's query of an         *)
(* account's voting power at a block; the body in the source is the        *)
(* placeholder `0` (table "stub").  Table "snapshot" stands for a token or *)
(* stake snapshot: a deterministic function of (account, block).           *)
(***************************************************************************)
weight_of(table, account, block) ==
    CASE table = "stub"     -> 0
      [] table = "snapshot" -> IF account = "alice"
                                  THEN (IF block = 0 THEN 150 ELSE 40)
                               ELSE IF account = "bob" THEN 60
                               ELSE IF account = "carol" THEN 25
                               ELSE 0

get_votes(self, account, block) == weight_of(oracle, account, block)

\* governor.proposal_types.get(&code): the entry at index code, if any.
proposal_types_get(proposal_types, code) ==
    IF code >= 0 /\ code < Len(proposal_types)
        THEN Some(proposal_types[code + 1])
        ELSE None

(***************************************************************************)
(* initialize (lib.rs:10-24).  The account is created zeroed by            *)
(* #[account(init)]: total_supply = 0 and proposal_types is empty.         *)
(***************************************************************************)
initialize(admin, manager, voting_delay, voting_period, proposal_threshold) ==
    [admin              |-> admin,
     manager            |-> manager,
     voting_delay       |-> voting_delay,
     voting_period      |-> voting_period,
     proposal_threshold |-> proposal_threshold,
     proposal_count     |-> 0,
     total_supply       |-> 0,
     proposal_types     |-> <<>>]

\* A Proposal account as #[account(init)] creates it: every field zero.
ZeroProposal ==
    [id |-> 0, proposer |-> "", description |-> "", proposal_type |-> 0,
     start_block |-> 0, end_block |-> 0, for_votes |-> 0, against_votes |-> 0,
     executed |-> FALSE, canceled |-> FALSE]

\* A Vote account as #[account(init)] creates it.
ZeroVote == [voter |-> "", proposal_id |-> 0, support |-> FALSE, weight |-> 0]

(***************************************************************************)
(* create_proposal (lib.rs:26-64).                                         *)
(***************************************************************************)
\* Fault: the manager bypass of lib.rs:37 left out.
proposer_allowed_no_bypass(gov, proposer, slot) ==
    get_votes(gov, proposer, slot) >= gov.proposal_threshold

\* The require! of lib.rs:35-39.
proposer_allowed(gov, proposer, slot) ==
    get_votes(gov, proposer, slot) >= gov.proposal_threshold
        \/ proposer = gov.manager

\* Fault: end_block counted from the slot, not from start_block.
proposal_written_no_delay(gov, proposal, proposer, description, proposal_type, slot) ==
    [proposal EXCEPT
        !.id            = gov.proposal_count,
        !.proposer      = proposer,
        !.description   = description,
        !.proposal_type = proposal_type,
        !.start_block   = slot + gov.voting_delay,
        !.end_block     = slot + gov.voting_period,
        !.executed      = FALSE,
        !.canceled      = FALSE]

\* The writes of lib.rs:43-50 to the zeroed account.
proposal_written(gov, proposal, proposer, description, proposal_type, slot) ==
    LET start_block == slot + gov.voting_delay
    IN  [proposal EXCEPT
            !.id            = gov.proposal_count,
            !.proposer      = proposer,
            !.description   = description,
            !.proposal_type = proposal_type,
            !.start_block   = start_block,
            !.end_block     = start_block + gov.voting_period,
            !.executed      = FALSE,
            !.canceled      = FALSE]

\* Fault: the increment of lib.rs:52 left out.
count_kept(gov) == gov

\* lib.rs:52.
count_incremented(gov) ==
    [gov EXCEPT !.proposal_count = gov.proposal_count + 1]

\* Fault: the registry lookup of lib.rs:41 moved before the require! of
\* lib.rs:35-39.
create_proposal_type_first(gov, proposal, proposer, description, proposal_type, slot) ==
    IF proposal_types_get(gov.proposal_types, proposal_type) = None
        THEN [outcome |-> "InvalidProposalType",
              governor |-> gov, proposal |-> proposal]
    ELSE IF ~proposer_allowed(gov, proposer, slot)
        THEN [outcome |-> "InsufficientProposerVotes",
              governor |-> gov, proposal |-> proposal]
    ELSE [outcome  |-> Ok,
          governor |-> count_incremented(gov),
          proposal |-> proposal_written(gov, proposal, proposer, description,
                                        proposal_type, slot)]

create_proposal(gov, proposal, proposer, description, proposal_type, slot) ==
    IF ~proposer_allowed(gov, proposer, slot)
        THEN [outcome |-> "InsufficientProposerVotes",
              governor |-> gov, proposal |-> proposal]
    ELSE IF proposal_types_get(gov.proposal_types, proposal_type) = None
        THEN [outcome |-> "InvalidProposalType",
              governor |-> gov, proposal |-> proposal]
    ELSE [outcome  |-> Ok,
          governor |-> count_incremented(gov),
          proposal |-> proposal_written(gov, proposal, proposer, description,
                                        proposal_type, slot)]

(***************************************************************************)
(* cast_vote (lib.rs:66-102).                                              *)
(***************************************************************************)
\* Fault: the upper limit of the window not checked.
voting_open_no_end(proposal, slot) == slot >= proposal.start_block

\* Fault: the window closed at end_block.
voting_open_end_exclusive(proposal, slot) ==
    slot >= proposal.start_block /\ slot < proposal.end_block

\* The require! of lib.rs:76-79.
voting_open(proposal, slot) ==
    slot >= proposal.start_block /\ slot <= proposal.end_block

\* Fault: the voting power read at the slot of the vote.
voter_weight_at_vote_time(gov, proposal, voter, slot) ==
    get_votes(gov, voter, slot)

\* lib.rs:81.
voter_weight(gov, proposal, voter, slot) ==
    get_votes(gov, voter, proposal.start_block)

\* lib.rs:83-86.
vote_written(vote, voter, proposal_id, support, weight) ==
    [vote EXCEPT !.voter = voter, !.proposal_id = proposal_id,
                 !.support = support, !.weight = weight]

\* Fault: the weight added to for_votes whatever the side of the vote.
tally_side_ignored(proposal, support, weight) ==
    [proposal EXCEPT !.for_votes = proposal.for_votes + weight]

\* Fault: the tally set to the weight of the vote, not increased by it.
tally_overwritten(proposal, support, weight) ==
    IF support
        THEN [proposal EXCEPT !.for_votes = weight]
        ELSE [proposal EXCEPT !.against_votes = weight]

\* lib.rs:88-92.
tally_added(proposal, support, weight) ==
    IF support
        THEN [proposal EXCEPT !.for_votes = proposal.for_votes + weight]
        ELSE [proposal EXCEPT !.against_votes = proposal.against_votes + weight]

\* Fault: the writes of lib.rs:83-92 made before the require! of lib.rs:76-79.
cast_vote_write_first(gov, proposal, vote, voter, proposal_id, support, slot) ==
    LET weight == voter_weight(gov, proposal, voter, slot)
    IN  [outcome  |-> IF voting_open(proposal, slot)
                         THEN Ok ELSE "VotingPeriodInactive",
         proposal |-> tally_added(proposal, support, weight),
         vote     |-> vote_written(vote, voter, proposal_id, support, weight)]

cast_vote(gov, proposal, vote, voter, proposal_id, support, slot) ==
    IF ~voting_open(proposal, slot)
        THEN [outcome |-> "VotingPeriodInactive",
              proposal |-> proposal, vote |-> vote]
    ELSE LET weight == voter_weight(gov, proposal, voter, slot)
         IN  [outcome  |-> Ok,
              proposal |-> tally_added(proposal, support, weight),
              vote     |-> vote_written(vote, voter, proposal_id, support, weight)]

(***************************************************************************)
(* execute_proposal (lib.rs:104-134).                                      *)
(***************************************************************************)
\* Fault: the product of lib.rs:114 not divided by 10_000.
quorum_of_unscaled(gov, info) == gov.total_supply * info.quorum

\* lib.rs:114.
quorum_of(gov, info) == (gov.total_supply * info.quorum) \div BPS

\* lib.rs:115; the caller has checked the divisor.
approval_of(proposal) ==
    (proposal.for_votes * BPS) \div (proposal.for_votes + proposal.against_votes)

\* Fault: execution allowed at end_block.
voting_ended_inclusive(proposal, slot) == slot >= proposal.end_block

\* The require! of lib.rs:111.
voting_ended(proposal, slot) == slot > proposal.end_block

\* lib.rs:113-129, once the three require! of lib.rs:109-111 have passed.
\* unwrap() of a missing type and the division by a zero total panic.
execute_tally(gov, proposal) ==
    LET found == proposal_types_get(gov.proposal_types, proposal.proposal_type)
    IN  IF found = None THEN Panic
        ELSE IF proposal.for_votes + proposal.against_votes = 0 THEN Panic
        ELSE IF ~(proposal.for_votes + proposal.against_votes
                    >= quorum_of(gov, found[1]))
            THEN "QuorumNotReached"
        ELSE IF ~(approval_of(proposal) >= found[1].approval_threshold)
            THEN "ApprovalThresholdNotMet"
        ELSE Ok

\* Fault: the require! of lib.rs:110 left out.
execute_proposal_cancel_ignored(gov, proposal, proposal_id, slot) ==
    LET outcome ==
            IF proposal.executed THEN "ProposalAlreadyExecuted"
            ELSE IF ~voting_ended(proposal, slot) THEN "VotingPeriodActive"
            ELSE execute_tally(gov, proposal)
    IN  [outcome  |-> outcome,
         proposal |-> IF outcome = Ok
                         THEN [proposal EXCEPT !.executed = TRUE]
                         ELSE proposal]

\* Fault: the require! of lib.rs:109 left out.
execute_proposal_unguarded(gov, proposal, proposal_id, slot) ==
    LET outcome ==
            IF proposal.canceled THEN "ProposalCanceled"
            ELSE IF ~voting_ended(proposal, slot) THEN "VotingPeriodActive"
            ELSE execute_tally(gov, proposal)
    IN  [outcome  |-> outcome,
         proposal |-> IF outcome = Ok
                         THEN [proposal EXCEPT !.executed = TRUE]
                         ELSE proposal]

execute_proposal(gov, proposal, proposal_id, slot) ==
    LET outcome ==
            IF proposal.executed THEN "ProposalAlreadyExecuted"
            ELSE IF proposal.canceled THEN "ProposalCanceled"
            ELSE IF ~voting_ended(proposal, slot) THEN "VotingPeriodActive"
            ELSE execute_tally(gov, proposal)
    IN  [outcome  |-> outcome,
         proposal |-> IF outcome = Ok
                         THEN [proposal EXCEPT !.executed = TRUE]
                         ELSE proposal]

(***************************************************************************)
(* The state machine: one transaction per step.                            *)
(***************************************************************************)
\* wrote: the handler had written to an account it was given when it returned.
Outcome(op, outcome, proposal, wrote) ==
    [op |-> op, outcome |-> outcome, proposal |-> proposal, wrote |-> wrote]

NoTransaction == Outcome("none", Ok, 0, FALSE)

\* The deployment: initialize has run once, on a fresh Governor account.
Init ==
    /\ \E voting_delay \in Delays, voting_period \in Periods,
          proposal_threshold \in Thresholds :
            governor = initialize(AdminKey, ManagerKey, voting_delay,
                                  voting_period, proposal_threshold)
    /\ oracle \in Oracles
    /\ proposals = <<>>
    /\ votes = <<>>
    /\ emitted = <<>>
    /\ clock = 0
    /\ result = Outcome("initialize", Ok, 0, TRUE)

\* The slot advances.
Tick ==
    /\ clock < MaxSlot
    /\ clock' = clock + 1
    /\ result' = NoTransaction
    /\ UNCHANGED <<governor, proposals, votes, oracle, emitted>>

\* A create_proposal transaction: the Proposal account is a fresh one.
CreateProposal(proposer, description, proposal_type) ==
    LET r == create_proposal(governor, ZeroProposal, proposer, description,
                             proposal_type, clock)
        wrote == r.governor # governor \/ r.proposal # ZeroProposal
    IN  /\ IF r.outcome = Ok
              THEN /\ governor' = r.governor
                   /\ proposals' = Append(proposals, r.proposal)
                   /\ emitted' = Append(emitted, 0)
                   /\ result' = Outcome("create_proposal", Ok,
                                        Len(proposals) + 1, wrote)
              ELSE /\ UNCHANGED <<governor, proposals, emitted>>
                   /\ result' = Outcome("create_proposal", r.outcome, 0, wrote)
        /\ UNCHANGED <<votes, clock, oracle>>

\* A cast_vote transaction on Proposal account p: the Vote account is a fresh
\* one, and proposal_id is the instruction's argument.
CastVote(p, voter, proposal_id, support) ==
    LET r == cast_vote(governor, proposals[p], ZeroVote, voter, proposal_id,
                       support, clock)
        wrote == r.proposal # proposals[p] \/ r.vote # ZeroVote
    IN  /\ IF r.outcome = Ok
              THEN /\ proposals' = [proposals EXCEPT ![p] = r.proposal]
                   /\ votes' = Append(votes, r.vote)
              ELSE UNCHANGED <<proposals, votes>>
        /\ result' = Outcome("cast_vote", r.outcome, p, wrote)
        /\ UNCHANGED <<governor, clock, oracle, emitted>>

\* An execute_proposal transaction on Proposal account p.
ExecuteProposal(p, proposal_id) ==
    LET r == execute_proposal(governor, proposals[p], proposal_id, clock)
        wrote == r.proposal # proposals[p]
    IN  /\ IF r.outcome = Ok
              THEN /\ proposals' = [proposals EXCEPT ![p] = r.proposal]
                   /\ emitted' = [emitted EXCEPT ![p] = emitted[p] + 1]
              ELSE UNCHANGED <<proposals, emitted>>
        /\ result' = Outcome("execute_proposal", r.outcome, p, wrote)
        /\ UNCHANGED <<governor, votes, clock, oracle>>

(***************************************************************************)
(* Collaborators outside the program: the instructions that the source     *)
(* leaves to be added (lib.rs:136-137) write the supply, the registry and  *)
(* the canceled flag.                                                      *)
(***************************************************************************)
SetTotalSupply(total_supply) ==
    /\ governor' = [governor EXCEPT !.total_supply = total_supply]
    /\ result' = NoTransaction
    /\ UNCHANGED <<proposals, votes, clock, oracle, emitted>>

SetProposalTypes(proposal_types) ==
    /\ governor' = [governor EXCEPT !.proposal_types = proposal_types]
    /\ result' = NoTransaction
    /\ UNCHANGED <<proposals, votes, clock, oracle, emitted>>

CancelProposal(p) ==
    /\ ~proposals[p].executed
    /\ proposals' = [proposals EXCEPT ![p].canceled = TRUE]
    /\ result' = NoTransaction
    /\ UNCHANGED <<governor, votes, clock, oracle, emitted>>

\* The model holds at most MaxAccounts Proposal and Vote accounts: a
\* transaction that creates one more is left out.
Room == Len(proposals) + Len(votes) < MaxAccounts

Next ==
    \/ Tick
    \/ \E proposer \in Accounts, description \in Descriptions,
          proposal_type \in TypeCodes :
            /\ create_proposal(governor, ZeroProposal, proposer, description,
                               proposal_type, clock).outcome = Ok => Room
            /\ CreateProposal(proposer, description, proposal_type)
    \/ \E p \in DOMAIN proposals, voter \in Voters,
          proposal_id \in ProposalIds, support \in BOOLEAN :
            /\ voting_open(proposals[p], clock) => Room
            /\ CastVote(p, voter, proposal_id, support)
    \/ \E p \in DOMAIN proposals, proposal_id \in ProposalIds :
            ExecuteProposal(p, proposal_id)
    \/ \E total_supply \in Supplies : SetTotalSupply(total_supply)
    \/ \E proposal_types \in Registries : SetProposalTypes(proposal_types)
    \/ \E p \in DOMAIN proposals : CancelProposal(p)

Spec == Init /\ [][Next]_vars

(***************************************************************************)
(* Vocabulary of the claims, stated from the account fields.               *)
(***************************************************************************)
\* The step is an execute_proposal transaction on Proposal account p.
ExecuteSteps(p) ==
    /\ result'.op = "execute_proposal"
    /\ result'.proposal = p
    /\ \E proposal_id \in ProposalIds : ExecuteProposal(p, proposal_id)

\* The step is a cast_vote transaction on Proposal account p.
VoteSteps(p) ==
    /\ result'.op = "cast_vote"
    /\ result'.proposal = p
    /\ \E voter \in Voters, proposal_id \in ProposalIds, support \in BOOLEAN :
            CastVote(p, voter, proposal_id, support)

\* The step is a create_proposal transaction with these inputs.
CreateSteps(proposer, proposal_type) ==
    /\ result'.op = "create_proposal"
    /\ \E description \in Descriptions :
            CreateProposal(proposer, description, proposal_type)

TotalCast(pr) == pr.for_votes + pr.against_votes

TypeExists(pr) == pr.proposal_type < Len(governor.proposal_types)

TypeOf(pr) == governor.proposal_types[pr.proposal_type + 1]

QuorumNeed(pr) == (governor.total_supply * TypeOf(pr).quorum) \div 10000

ApprovalPct(pr) == (pr.for_votes * 10000) \div TotalCast(pr)

\* executeProposal on pr gets past the flags and the time check.
Executable(pr) == ~pr.executed /\ ~pr.canceled /\ clock > pr.end_block

PowerNow(account) == weight_of(oracle, account, clock)

MayPropose(account) ==
    PowerNow(account) >= governor.proposal_threshold
        \/ account = governor.manager

CodeExists(code) == code < Len(governor.proposal_types)

(***************************************************************************)
(* C1.  A proposal becomes executed only by an executeProposal step taken  *)
(* at a time now > endTime at which totalCast >= quorumNeed and            *)
(* approvalPct >= approvalThreshold; and an executeProposal that gets to   *)
(* the tallies with totalCast < quorumNeed is rejected with                *)
(* QuorumNotReached and does not set executed.                             *)
(***************************************************************************)
C1_ExecutedOnlyOnQuorumAndApproval ==
    [][\A p \in DOMAIN proposals :
        LET pr == proposals[p]
        IN  /\ (~pr.executed /\ proposals'[p].executed) =>
                  /\ ExecuteSteps(p)
                  /\ clock > pr.end_block
                  /\ TypeExists(pr)
                  /\ TotalCast(pr) >= QuorumNeed(pr)
                  /\ TotalCast(pr) > 0
                  /\ ApprovalPct(pr) >= TypeOf(pr).approval_threshold
            /\ (/\ ExecuteSteps(p)
                /\ Executable(pr)
                /\ TypeExists(pr)
                /\ TotalCast(pr) < QuorumNeed(pr)) =>
                  /\ result'.outcome = "QuorumNotReached"
                  /\ ~proposals'[p].executed]_vars

(***************************************************************************)
(* C2.  castVote is accepted if and only if startTime <= now <= endTime;   *)
(* outside the window it fails with VotingPeriodInactive and leaves        *)
(* forVotes and againstVotes unchanged.                                    *)
(***************************************************************************)
C2_VoteAcceptedIffWindowOpen ==
    [][\A p \in DOMAIN proposals :
        VoteSteps(p) =>
            LET pr == proposals[p]
                inside == pr.start_block <= clock /\ clock <= pr.end_block
            IN  /\ result'.outcome = Ok <=> inside
                /\ ~inside =>
                      /\ result'.outcome = "VotingPeriodInactive"
                      /\ proposals'[p].for_votes = pr.for_votes
                      /\ proposals'[p].against_votes = pr.against_votes]_vars

\* A vote was just accepted at now = endTime of a window with start < end.
C2_Witness ==
    /\ result.op = "cast_vote"
    /\ result.outcome = Ok
    /\ clock = proposals[result.proposal].end_block
    /\ proposals[result.proposal].start_block < clock

(***************************************************************************)
(* C3.  Once a proposal is executed it stays executed, every later         *)
(* executeProposal on it fails with ProposalAlreadyExecuted, and           *)
(* ProposalExecuted is emitted for it at most once.                        *)
(***************************************************************************)
C3_ExecutedAtMostOnce ==
    [][\A p \in DOMAIN proposals :
        /\ emitted'[p] <= 1
        /\ proposals[p].executed =>
              /\ proposals'[p].executed
              /\ emitted'[p] = emitted[p]
              /\ ExecuteSteps(p) =>
                    result'.outcome = "ProposalAlreadyExecuted"]_vars

\* A second executeProposal on an executed proposal was just rejected.
C3_Witness ==
    /\ result.op = "execute_proposal"
    /\ result.outcome = "ProposalAlreadyExecuted"
    /\ proposals[result.proposal].executed
    /\ emitted[result.proposal] = 1

(***************************************************************************)
(* C4.  executeProposal on a non-executed, non-canceled proposal after     *)
(* endTime with forVotes = againstVotes = 0 returns QuorumNotReached, for  *)
(* any proposal type with a positive quorum fraction, and does not set     *)
(* executed.                                                               *)
(***************************************************************************)
C4_ZeroVotesQuorumNotReached ==
    [][\A p \in DOMAIN proposals :
        LET pr == proposals[p]
        IN  (/\ ExecuteSteps(p)
             /\ Executable(pr)
             /\ pr.for_votes = 0 /\ pr.against_votes = 0
             /\ TypeExists(pr)
             /\ TypeOf(pr).quorum > 0) =>
                /\ result'.outcome = "QuorumNotReached"
                /\ ~proposals'[p].executed]_vars

(***************************************************************************)
(* C5.  executeProposal on a non-executed, non-canceled proposal after     *)
(* endTime whose type code is no longer in the registry is rejected with   *)
(* the error InvalidProposalType, and executed stays false.                *)
(***************************************************************************)
C5_MissingTypeInvalidProposalType ==
    [][\A p \in DOMAIN proposals :
        LET pr == proposals[p]
        IN  (ExecuteSteps(p) /\ Executable(pr) /\ ~TypeExists(pr)) =>
                /\ result'.outcome = "InvalidProposalType"
                /\ ~proposals'[p].executed]_vars

(***************************************************************************)
(* C6.  createProposal checks the type code first: a code that is not in   *)
(* the registry fails with InvalidProposalType even if the proposer lacks  *)
(* the voting power and is not the manager, and InsufficientProposerVotes  *)
(* is returned only when the type code exists.                             *)
(***************************************************************************)
C6_TypeCheckedFirst ==
    [][result'.op = "create_proposal" =>
       \A proposer \in Accounts, proposal_type \in TypeCodes :
        CreateSteps(proposer, proposal_type) =>
            /\ ~CodeExists(proposal_type) =>
                  result'.outcome = "InvalidProposalType"
            /\ result'.outcome = "InsufficientProposerVotes" =>
                  CodeExists(proposal_type)]_vars

(***************************************************************************)
(* C6, amended.  createProposal checks the proposer first: a proposer who  *)
(* lacks the voting power and is not the manager fails with                *)
(* InsufficientProposerVotes whether or not the type code exists, and      *)
(* InvalidProposalType is returned exactly when the proposer passes that   *)
(* check and the type code is not in the registry.                         *)
(***************************************************************************)
C6_ProposerCheckedFirst ==
    [][result'.op = "create_proposal" =>
       \A proposer \in Accounts, proposal_type \in TypeCodes :
        CreateSteps(proposer, proposal_type) =>
            /\ ~MayPropose(proposer) =>
                  result'.outcome = "InsufficientProposerVotes"
            /\ result'.outcome = "InvalidProposalType" <=>
                  (MayPropose(proposer) /\ ~CodeExists(proposal_type))]_vars

\* createProposal was just rejected with InsufficientProposerVotes while the
\* registry holds no type at all.
C6_Witness ==
    /\ result.op = "create_proposal"
    /\ result.outcome = "InsufficientProposerVotes"
    /\ governor.proposal_types = <<>>

(***************************************************************************)
(* C7.  executeProposal on a non-executed, non-canceled proposal at any    *)
(* time now <= endTime fails with VotingPeriodActive and leaves executed   *)
(* false, whatever the tallies; no proposal becomes executed at a time     *)
(* now <= endTime.                                                         *)
(***************************************************************************)
C7_NoExecutionBeforeEnd ==
    [][\A p \in DOMAIN proposals :
        LET pr == proposals[p]
        IN  /\ (/\ ExecuteSteps(p)
                /\ ~pr.executed /\ ~pr.canceled
                /\ clock <= pr.end_block) =>
                  /\ result'.outcome = "VotingPeriodActive"
                  /\ ~proposals'[p].executed
            /\ (~pr.executed /\ proposals'[p].executed) =>
                  clock > pr.end_block]_vars

\* executeProposal was just rejected at now = endTime on a proposal that
\* holds votes in favour.
C7_Witness ==
    /\ result.op = "execute_proposal"
    /\ result.outcome = "VotingPeriodActive"
    /\ clock = proposals[result.proposal].end_block
    /\ proposals[result.proposal].for_votes > 0

(***************************************************************************)
(* C8.  For an existing proposal type, createProposal succeeds if and only *)
(* if the proposer's voting power at now is >= proposalThreshold or the    *)
(* proposer is the manager; otherwise it fails with                        *)
(* InsufficientProposerVotes.                                              *)
(***************************************************************************)
C8_ProposerThresholdOrManager ==
    [][result'.op = "create_proposal" =>
       \A proposer \in Accounts, proposal_type \in TypeCodes :
        (CreateSteps(proposer, proposal_type) /\ CodeExists(proposal_type)) =>
            /\ result'.outcome = Ok <=> MayPropose(proposer)
            /\ ~MayPropose(proposer) =>
                  result'.outcome = "InsufficientProposerVotes"]_vars

\* The manager, with voting power 0 and a positive threshold, has just
\* created a proposal.
C8_Witness ==
    /\ result.op = "create_proposal"
    /\ result.outcome = Ok
    /\ proposals[result.proposal].proposer = governor.manager
    /\ PowerNow(governor.manager) = 0
    /\ governor.proposal_threshold > 0

(***************************************************************************)
(* C9.  A successful createProposal at time now yields a proposal with id  *)
(* equal to proposalCount before the call, startTime = now + votingDelay,  *)
(* endTime = startTime + votingPeriod, forVotes = againstVotes = 0,        *)
(* executed = canceled = false, and increases proposalCount by exactly 1.  *)
(***************************************************************************)
C9_CreatedProposalFields ==
    [][result'.op = "create_proposal" =>
       \A proposer \in Accounts, proposal_type \in TypeCodes :
        (CreateSteps(proposer, proposal_type) /\ result'.outcome = Ok) =>
            LET new == proposals'[Len(proposals) + 1]
            IN  /\ Len(proposals') = Len(proposals) + 1
                /\ new.id = governor.proposal_count
                /\ new.start_block = clock + governor.voting_delay
                /\ new.end_block = new.start_block + governor.voting_period
                /\ new.for_votes = 0 /\ new.against_votes = 0
                /\ ~new.executed /\ ~new.canceled
                /\ governor'.proposal_count = governor.proposal_count + 1]_vars

\* A proposal has just been created after the clock moved, with a voting
\* delay and a voting period.
C9_Witness ==
    /\ result.op = "create_proposal"
    /\ result.outcome = Ok
    /\ clock > 0
    /\ governor.voting_delay > 0
    /\ governor.voting_period > 0

(***************************************************************************)
(* C10.  An operation that fails changes nothing: the state after the      *)
(* step is the state before it, and a handler that returns a failure has   *)
(* written no field of the accounts it was given (it validates, then       *)
(* mutates).                                                               *)
(***************************************************************************)
C10_FailureChangesNothing ==
    [][result'.outcome # Ok =>
        /\ ~result'.wrote
        /\ UNCHANGED <<governor, proposals, votes, clock, oracle, emitted>>]_vars

\* A castVote was just rejected on a proposal that already holds a vote.
C10_Witness ==
    /\ result.op = "cast_vote"
    /\ result.outcome # Ok
    /\ TotalCast(proposals[result.proposal]) > 0
    /\ votes # <<>>

(***************************************************************************)
(* C11.  The weight recorded in the VoteRecord of a successful castVote    *)
(* and added to the tally of the proposal is the voter's voting power at   *)
(* the proposal's startTime, whatever the time of the vote within the      *)
(* window and whatever the voter's power at that time.                     *)
(***************************************************************************)
C11_WeightSnapshotAtStart ==
    [][\A p \in DOMAIN proposals :
        (VoteSteps(p) /\ result'.outcome = Ok) =>
            LET pr  == proposals[p]
                new == votes'[Len(votes) + 1]
                w   == weight_of(oracle, new.voter, pr.start_block)
            IN  /\ Len(votes') = Len(votes) + 1
                /\ new.weight = w
                /\ TotalCast(proposals'[p]) = TotalCast(pr) + w
                /\ new.support =>
                      proposals'[p].for_votes = pr.for_votes + w
                /\ ~new.support =>
                      proposals'[p].against_votes = pr.against_votes + w]_vars

\* A vote was just accepted after startTime by a voter whose power at the
\* time of the vote differs from the power at startTime.
C11_Witness ==
    /\ result.op = "cast_vote"
    /\ result.outcome = Ok
    /\ clock > proposals[result.proposal].start_block
    /\ votes[Len(votes)].weight > 0
    /\ votes[Len(votes)].weight # PowerNow(votes[Len(votes)].voter)

(***************************************************************************)
(* The votes on a proposal.  The state after the manager has created a     *)
(* proposal of the standard type at slot 0 and the slot has reached        *)
(* start_block; then any transactions of the program, by any account of    *)
(* the electorate, in any order and at any slots.                          *)
(***************************************************************************)
InitVotes ==
    /\ oracle \in Oracles
    /\ \E voting_delay \in Delays, voting_period \in Periods,
          proposal_threshold \in Thresholds :
            LET gov == [initialize(AdminKey, ManagerKey, voting_delay,
                                   voting_period, proposal_threshold)
                            EXCEPT !.proposal_types = <<StandardType>>]
                r   == create_proposal(gov, ZeroProposal, ManagerKey, "d", 0, 0)
            IN  /\ governor = r.governor
                /\ proposals = <<r.proposal>>
                /\ clock = r.proposal.start_block
    /\ votes = <<>>
    /\ emitted = <<0>>
    /\ result = NoTransaction

\* These specifications hold one account more than Spec, so that the first
\* proposal can hold two votes: a transaction that creates one more is left
\* out.
MoreRoom == Len(proposals) + Len(votes) < MaxAccounts + 1

\* Any transaction of the program.
Transactions ==
    \/ \E proposer \in Accounts, description \in Descriptions,
          proposal_type \in TypeCodes :
            /\ create_proposal(governor, ZeroProposal, proposer, description,
                               proposal_type, clock).outcome = Ok => MoreRoom
            /\ CreateProposal(proposer, description, proposal_type)
    \/ \E p \in DOMAIN proposals, voter \in Electorate,
          proposal_id \in ProposalIds, support \in BOOLEAN :
            /\ voting_open(proposals[p], clock) => MoreRoom
            /\ CastVote(p, voter, proposal_id, support)
    \/ \E p \in DOMAIN proposals, proposal_id \in ProposalIds :
            ExecuteProposal(p, proposal_id)

NextVotes ==
    \/ Tick
    \/ Transactions

SpecVotes == InitVotes /\ [][NextVotes]_vars

\* No two Vote accounts hold the same voter.
DifferentVoters ==
    \A i \in DOMAIN votes, j \in DOMAIN votes :
        i # j => votes[i].voter # votes[j].voter

\* The voters whose Vote account holds this side.
VotersWith(support) ==
    {votes[i].voter : i \in {j \in DOMAIN votes : votes[j].support = support}}

\* The voting power of a set of voters at a block.
RECURSIVE PowerOf(_, _)
PowerOf(S, block) ==
    IF S = {} THEN 0
    ELSE LET v == CHOOSE x \in S : TRUE
         IN  weight_of(oracle, v, block) + PowerOf(S \ {v}, block)

(***************************************************************************)
(* C12.  For castVote calls by different voters on one proposal, all made  *)
(* within the voting window, the tallies after the calls are a function of *)
(* the set of calls alone: forVotes is the power at startTime of the       *)
(* voters who voted in favour and againstVotes that of the voters who      *)
(* voted against, in whatever order the calls were serialized.             *)
(***************************************************************************)
C12_TallyOrderIndependent ==
    (Len(proposals) = 1 /\ DifferentVoters) =>
        /\ proposals[1].for_votes =
              PowerOf(VotersWith(TRUE), proposals[1].start_block)
        /\ proposals[1].against_votes =
              PowerOf(VotersWith(FALSE), proposals[1].start_block)

\* Two voters have voted on the one proposal, on different sides and at
\* different slots, the voter of the least power first.
C12_Witness ==
    /\ Len(proposals) = 1
    /\ DifferentVoters
    /\ Len(votes) = 2
    /\ votes[1].voter = "carol"
    /\ proposals[1].for_votes > 0
    /\ proposals[1].against_votes > 0
    /\ clock > proposals[1].start_block
    /\ result.op = "cast_vote"
    /\ result.outcome = Ok

(***************************************************************************)
(* C13.  forVotes and againstVotes of a proposal never decrease; a         *)
(* successful castVote changes only the tally of the chosen side of the    *)
(* chosen proposal, by the weight of the vote, and no other step changes   *)
(* a tally.                                                                *)
(***************************************************************************)
C13_TalliesMonotone ==
    [][\A p \in DOMAIN proposals :
        LET pr  == proposals[p]
            nxt == proposals'[p]
        IN  /\ nxt.for_votes >= pr.for_votes
            /\ nxt.against_votes >= pr.against_votes
            /\ (nxt.for_votes # pr.for_votes
                    \/ nxt.against_votes # pr.against_votes) =>
                  /\ VoteSteps(p)
                  /\ result'.outcome = Ok
            /\ (VoteSteps(p) /\ result'.outcome = Ok) =>
                  LET new == votes'[Len(votes) + 1]
                  IN  /\ new.support =>
                            /\ nxt.for_votes = pr.for_votes + new.weight
                            /\ nxt.against_votes = pr.against_votes
                      /\ ~new.support =>
                            /\ nxt.against_votes = pr.against_votes + new.weight
                            /\ nxt.for_votes = pr.for_votes]_vars

\* A vote against, of positive weight, was just recorded on a proposal that
\* holds no vote in favour.
C13_Witness ==
    /\ result.op = "cast_vote"
    /\ result.outcome = Ok
    /\ ~votes[Len(votes)].support
    /\ votes[Len(votes)].weight > 0
    /\ proposals[result.proposal].against_votes = votes[Len(votes)].weight
    /\ proposals[result.proposal].for_votes = 0

(***************************************************************************)
(* C14.  Every proposal has startTime < endTime, and its startTime and     *)
(* endTime never change after creation (initialize is to reject            *)
(* votingPeriod = 0, so that every proposal is created with a voting       *)
(* period of positive length).                                             *)
(***************************************************************************)
C14_StartBeforeEnd ==
    [][/\ \A p \in DOMAIN proposals' :
            proposals'[p].start_block < proposals'[p].end_block
       /\ \A p \in DOMAIN proposals :
            /\ proposals'[p].start_block = proposals[p].start_block
            /\ proposals'[p].end_block = proposals[p].end_block]_vars

(***************************************************************************)
(* C15.  No proposal is both executed and canceled: once canceled is set   *)
(* on a proposal that is not executed, every executeProposal on it fails   *)
(* with ProposalCanceled, at any time and with any tallies, and executed   *)
(* stays false.                                                            *)
(***************************************************************************)
C15_ExecutedCanceledExclusive ==
    [][/\ \A p \in DOMAIN proposals' :
            ~(proposals'[p].executed /\ proposals'[p].canceled)
       /\ \A p \in DOMAIN proposals :
            (proposals[p].canceled /\ ~proposals[p].executed) =>
                /\ ~proposals'[p].executed
                /\ ExecuteSteps(p) =>
                      result'.outcome = "ProposalCanceled"]_vars

\* executeProposal was just rejected with ProposalCanceled after endTime on a
\* canceled proposal whose tallies meet the quorum and the approval threshold.
C15_Witness ==
    /\ result.op = "execute_proposal"
    /\ result.outcome = "ProposalCanceled"
    /\ proposals[result.proposal].canceled
    /\ clock > proposals[result.proposal].end_block
    /\ TypeExists(proposals[result.proposal])
    /\ TotalCast(proposals[result.proposal]) > 0
    /\ TotalCast(proposals[result.proposal])
            >= QuorumNeed(proposals[result.proposal])
    /\ ApprovalPct(proposals[result.proposal])
            >= TypeOf(proposals[result.proposal]).approval_threshold

(***************************************************************************)
(* C16.  proposalCount never decreases and only a successful               *)
(* createProposal changes it, by one; any two distinct proposals have      *)
(* different ids and every id is less than proposalCount; admin and        *)
(* manager never change after initialize.                                  *)
(***************************************************************************)
C16_ProposalCountAndIds ==
    [][/\ governor'.proposal_count >= governor.proposal_count
       /\ governor'.proposal_count # governor.proposal_count =>
            /\ result'.op = "create_proposal"
            /\ result'.outcome = Ok
            /\ governor'.proposal_count = governor.proposal_count + 1
       /\ governor'.admin = governor.admin
       /\ governor'.manager = governor.manager
       /\ \A p \in DOMAIN proposals' :
            /\ proposals'[p].id < governor'.proposal_count
            /\ \A q \in DOMAIN proposals' :
                  p # q => proposals'[p].id # proposals'[q].id]_vars

\* A second proposal has just been created.
C16_Witness ==
    /\ result.op = "create_proposal"
    /\ result.outcome = Ok
    /\ Len(proposals) = 2
    /\ proposals[1].id = 0
    /\ proposals[2].id = 1
    /\ governor.proposal_count = 2

(***************************************************************************)
(* The life of a proposal under the program's own instructions: the state  *)
(* after the manager has created a proposal of the standard type at slot   *)
(* 0, with a total supply set, and the slot has reached start_block; then  *)
(* any transactions of the program and slot advances.  The slot keeps      *)
(* advancing (up to the model's last slot) and execute_proposal keeps      *)
(* being submitted on every proposal.                                      *)
(***************************************************************************)
InitLive ==
    /\ oracle \in Oracles
    /\ \E voting_delay \in Delays, voting_period \in Periods,
          proposal_threshold \in Thresholds, total_supply \in QuorumSupplies :
            LET gov == [initialize(AdminKey, ManagerKey, voting_delay,
                                   voting_period, proposal_threshold)
                            EXCEPT !.proposal_types = <<StandardType>>,
                                   !.total_supply = total_supply]
                r   == create_proposal(gov, ZeroProposal, ManagerKey, "d", 0, 0)
            IN  /\ governor = r.governor
                /\ proposals = <<r.proposal>>
                /\ clock = r.proposal.start_block
    /\ votes = <<>>
    /\ emitted = <<0>>
    /\ result = NoTransaction

\* The Proposal accounts there is room for.
ProposalAccounts == 1..(MaxAccounts + 1)

\* An execute_proposal transaction on Proposal account p.
Execute(p) ==
    /\ p \in DOMAIN proposals
    /\ \E proposal_id \in ProposalIds : ExecuteProposal(p, proposal_id)

NextLive ==
    \/ Tick
    \/ Transactions

SpecLive ==
    /\ InitLive
    /\ [][NextLive]_vars
    /\ WF_vars(Tick)
    /\ \A p \in ProposalAccounts : WF_vars(Execute(p))

\* The proposal passes: executeProposal gets past the flags and the time
\* check, the type exists, and the tallies meet quorum and approval.
Passing(pr) ==
    /\ Executable(pr)
    /\ TypeExists(pr)
    /\ TotalCast(pr) > 0
    /\ TotalCast(pr) >= QuorumNeed(pr)
    /\ ApprovalPct(pr) >= TypeOf(pr).approval_threshold

(***************************************************************************)
(* C17.  executeProposal on a proposal that passes (not executed, not      *)
(* canceled, type in the registry, now > endTime, totalCast >= quorumNeed, *)
(* approvalPct >= approvalThreshold) succeeds and sets executed; and, the  *)
(* clock advancing and executeProposal being submitted under weak          *)
(* fairness, a proposal that passes is eventually executed.                *)
(***************************************************************************)
C17_PassingEventuallyExecuted ==
    /\ [][\A p \in DOMAIN proposals :
            (Passing(proposals[p]) /\ ExecuteSteps(p)) =>
                /\ result'.outcome = Ok
                /\ proposals'[p].executed]_vars
    /\ \A p \in ProposalAccounts :
            (p \in DOMAIN proposals /\ Passing(proposals[p]))
                ~> (p \in DOMAIN proposals /\ proposals[p].executed)

\* A proposal with votes on both sides and a positive quorum has just been
\* executed.
C17_Witness ==
    /\ result.op = "execute_proposal"
    /\ result.outcome = Ok
    /\ proposals[1].executed
    /\ proposals[1].for_votes > 0
    /\ proposals[1].against_votes > 0
    /\ QuorumNeed(proposals[1]) > 0

(***************************************************************************)
(* C18.  Once a proposal is executed its forVotes and againstVotes never   *)
(* change again: every castVote on an executed proposal fails with         *)
(* VotingPeriodInactive, the clock never going back.                       *)
(***************************************************************************)
C18_TalliesFrozenAfterExecution ==
    [][/\ clock' >= clock
       /\ \A p \in DOMAIN proposals :
            proposals[p].executed =>
                /\ proposals'[p].for_votes = proposals[p].for_votes
                /\ proposals'[p].against_votes = proposals[p].against_votes
                /\ clock > proposals[p].end_block
                /\ (result'.op = "cast_vote" /\ result'.proposal = p) =>
                      result'.outcome = "VotingPeriodInactive"]_vars

\* A castVote on an executed proposal was just rejected.
C18_Witness ==
    /\ result.op = "cast_vote"
    /\ result.outcome = "VotingPeriodInactive"
    /\ proposals[result.proposal].executed
    /\ TotalCast(proposals[result.proposal]) > 0

\* The sum of the weights of the first n Vote accounts that hold this
\* proposal id and this side.
RECURSIVE RecordedWeight(_, _, _)
RecordedWeight(id, support, n) ==
    IF n = 0 THEN 0
    ELSE RecordedWeight(id, support, n - 1)
            + (IF votes[n].proposal_id = id /\ votes[n].support = support
                  THEN votes[n].weight ELSE 0)

(***************************************************************************)
(* C19.  For every proposal p, forVotes is the sum of the weights of the   *)
(* VoteRecords with proposalId = p.id and support = true, and againstVotes *)
(* that of the VoteRecords with proposalId = p.id and support = false: the *)
(* proposalId of a VoteRecord is the id of the proposal whose tally the    *)
(* castVote call increased.                                                *)
(***************************************************************************)
C19_TalliesAreSumOfRecords ==
    \A p \in DOMAIN proposals :
        /\ proposals[p].for_votes =
              RecordedWeight(proposals[p].id, TRUE, Len(votes))
        /\ proposals[p].against_votes =
              RecordedWeight(proposals[p].id, FALSE, Len(votes))

(***************************************************************************)
(* The arithmetic at its width.  A u64 is the sequence of its 8 bytes,     *)
(* least significant first; an exact (unbounded) result is a longer        *)
(* sequence of bytes.  The operators below are the arithmetic of natural   *)
(* numbers on byte sequences of any length.                                *)
(***************************************************************************)
\* The u64 of a number below 2^31.
U64(n) ==
    [i \in 1..8 |-> IF i = 1 THEN n % 256
                    ELSE IF i = 2 THEN (n \div 256) % 256
                    ELSE IF i = 3 THEN (n \div 65536) % 256
                    ELSE IF i = 4 THEN (n \div 16777216) % 256
                    ELSE 0]

\* 2^k as a u64, k < 64.
Pow2(k) == [i \in 1..8 |-> IF i = (k \div 8) + 1 THEN 2 ^ (k % 8) ELSE 0]

\* u64::MAX.
U64Max == [i \in 1..8 |-> 255]

\* Byte i of a, zero past its length.
Byte(a, i) == IF i <= Len(a) THEN a[i] ELSE 0

Longer(a, b) == IF Len(a) >= Len(b) THEN Len(a) ELSE Len(b)

\* The carry into byte i of a + b.
RECURSIVE CarryIn(_, _, _)
CarryIn(a, b, i) ==
    IF i = 1 THEN 0
    ELSE (Byte(a, i - 1) + Byte(b, i - 1) + CarryIn(a, b, i - 1)) \div 256

\* a + b, exact: one byte longer than the longer operand.
Sum(a, b) ==
    [i \in 1..(Longer(a, b) + 1) |->
        (Byte(a, i) + Byte(b, i) + CarryIn(a, b, i)) % 256]

\* The carry into byte i of a * k, for a number k < 2^16.
RECURSIVE MulCarry(_, _, _)
MulCarry(a, k, i) ==
    IF i = 1 THEN 0
    ELSE (Byte(a, i - 1) * k + MulCarry(a, k, i - 1)) \div 256

\* a * k, exact, for a number k < 2^16: two bytes longer than a.
Product(a, k) ==
    [i \in 1..(Len(a) + 2) |-> (Byte(a, i) * k + MulCarry(a, k, i)) % 256]

\* a < b, as numbers: decided at the most significant byte that differs.
RECURSIVE LessFrom(_, _, _)
LessFrom(a, b, i) ==
    IF i = 0 THEN FALSE
    ELSE IF Byte(a, i) # Byte(b, i) THEN Byte(a, i) < Byte(b, i)
    ELSE LessFrom(a, b, i - 1)

Less(a, b) == LessFrom(a, b, Longer(a, b))

Same(a, b) == ~Less(a, b) /\ ~Less(b, a)

AtLeast(a, b) == ~Less(a, b)

IsZero(a) == \A i \in DOMAIN a : a[i] = 0

\* The borrow into byte i of a - b (a >= b).
RECURSIVE BorrowIn(_, _, _)
BorrowIn(a, b, i) ==
    IF i = 1 THEN 0
    ELSE IF Byte(a, i - 1) < Byte(b, i - 1) + BorrowIn(a, b, i - 1)
        THEN 1 ELSE 0

\* a - b for a >= b, of the length of a.
Difference(a, b) ==
    [i \in 1..Len(a) |->
        (Byte(a, i) + 256 - Byte(b, i) - BorrowIn(a, b, i)) % 256]

\* The largest d + e with e < 2 * step and b * (d + e) <= r, found bit by
\* bit (b * d <= r; step is a power of two or 0).
RECURSIVE DigitFrom(_, _, _, _)
DigitFrom(r, b, d, step) ==
    IF step = 0 THEN d
    ELSE IF AtLeast(r, Product(b, d + step))
        THEN DigitFrom(r, b, d + step, step \div 2)
        ELSE DigitFrom(r, b, d, step \div 2)

\* Long division of a by b > 0, byte by byte from the most significant:
\* after bytes i..Len(a) the quotient bytes found and the remainder.
RECURSIVE DivFrom(_, _, _)
DivFrom(a, b, i) ==
    IF i > Len(a) THEN [quotient |-> <<>>, remainder |-> U64(0)]
    ELSE LET up  == DivFrom(a, b, i + 1)
             r   == <<a[i]>> \o up.remainder
             q   == DigitFrom(r, b, 0, 128)
         IN  [quotient  |-> <<q>> \o up.quotient,
              remainder |-> SubSeq(Difference(r, Product(b, q)), 1, Len(b))]

\* floor(a / b), b > 0, of the length of a.
Quotient(a, b) == DivFrom(a, b, 1).quotient

\* The exact result fits a u64.
Fits(x) == \A i \in DOMAIN x : i > 8 => x[i] = 0

\* The low 64 bits of an exact result: what a wrapping operation keeps.
Wrapped(x) == [i \in 1..8 |-> Byte(x, i)]

(***************************************************************************)
(* The handlers' arithmetic on u64.  The operators +, * and += of the      *)
(* source are unchecked: when the exact result does not fit, a build with  *)
(* overflow checks panics and a build without them keeps the low 64 bits.  *)
(* mode is the build's behaviour.                                          *)
(***************************************************************************)
OverflowModes == {"panic", "wrap"}

\* lib.rs:47-48: start_block and end_block.
blocks_u64(slot, voting_delay, voting_period, mode) ==
    LET start_block == Sum(slot, voting_delay)
        end_block   == Sum(Wrapped(start_block), voting_period)
    IN  IF mode = "panic" /\ ~(Fits(start_block) /\ Fits(end_block))
            THEN [outcome |-> Panic]
            ELSE [outcome     |-> Ok,
                  start_block |-> Wrapped(start_block),
                  end_block   |-> Wrapped(end_block)]

\* lib.rs:89 and lib.rs:91: tally += voter_weight.
tally_u64(tally, weight, mode) ==
    LET added == Sum(tally, weight)
    IN  IF mode = "panic" /\ ~Fits(added)
            THEN [outcome |-> Panic]
            ELSE [outcome |-> Ok, tally |-> Wrapped(added)]

\* lib.rs:113-124 for a type found in the registry.
execute_tally_u64(total_supply, info, for_votes, against_votes, mode) ==
    LET supply_scaled == Product(total_supply, info.quorum)
        for_scaled    == Product(for_votes, BPS)
        total         == Sum(for_votes, against_votes)
    IN  IF mode = "panic"
                /\ ~(Fits(supply_scaled) /\ Fits(for_scaled) /\ Fits(total))
            THEN Panic
        ELSE IF IsZero(Wrapped(total)) THEN Panic
        ELSE LET quorum   == Quotient(Wrapped(supply_scaled), U64(BPS))
                 approval == Quotient(Wrapped(for_scaled), Wrapped(total))
             IN  IF ~AtLeast(Wrapped(total), quorum)
                     THEN "QuorumNotReached"
                 ELSE IF ~AtLeast(approval, U64(info.approval_threshold))
                     THEN "ApprovalThresholdNotMet"
                 ELSE Ok

(***************************************************************************)
(* The program on u64 account fields: the slots, the tallies, the weights, *)
(* the threshold and the supply are byte sequences, and each transaction   *)
(* runs in a build with or without overflow checks.                        *)
(***************************************************************************)
WideDelays == {U64(0), U64Max}
WidePeriods == {U64(0), U64(1), U64Max}
WideSupplies == {U64(500), Pow2(63)}

\* Voting power as a u64: table "whale".
weight_u64(table, account, block) ==
    IF account = "alice" THEN U64Max
    ELSE IF account = "bob" THEN Pow2(51)
    ELSE IF account = "carol" THEN U64(100)
    ELSE U64(0)

\* The accounts of lib.rs:197-216 as #[account(init)] creates them.
ZeroProposalU64 ==
    [ZeroProposal EXCEPT !.start_block = U64(0), !.end_block = U64(0),
                         !.for_votes = U64(0), !.against_votes = U64(0)]

ZeroVoteU64 == [ZeroVote EXCEPT !.weight = U64(0)]

InitU64 ==
    /\ \E voting_delay \in WideDelays, voting_period \in WidePeriods,
          proposal_threshold \in Thresholds, total_supply \in WideSupplies :
            governor = [initialize(AdminKey, ManagerKey, voting_delay,
                                   voting_period, U64(proposal_threshold))
                            EXCEPT !.proposal_types = <<StandardType>>,
                                   !.total_supply = total_supply]
    /\ oracle = "whale"
    /\ proposals = <<>>
    /\ votes = <<>>
    /\ emitted = <<>>
    /\ clock = 0
    /\ result = Outcome("initialize", Ok, 0, TRUE)

\* The outcome of create_proposal (lib.rs:26-64) and the blocks it writes.
create_proposal_u64(gov, proposer, proposal_type, slot, mode) ==
    IF ~(AtLeast(weight_u64(oracle, proposer, U64(slot)), gov.proposal_threshold)
            \/ proposer = gov.manager)
        THEN [outcome |-> "InsufficientProposerVotes"]
    ELSE IF proposal_types_get(gov.proposal_types, proposal_type) = None
        THEN [outcome |-> "InvalidProposalType"]
    ELSE blocks_u64(U64(slot), gov.voting_delay, gov.voting_period, mode)

\* A create_proposal transaction: the Proposal account is a fresh one.  A
\* panic at lib.rs:47 or lib.rs:48 comes after the writes of lib.rs:43-46.
CreateProposalU64(proposer, description, proposal_type, mode) ==
    LET r == create_proposal_u64(governor, proposer, proposal_type, clock, mode)
    IN  /\ r.outcome = Ok => Room
        /\ IF r.outcome = Ok
              THEN /\ proposals' = Append(proposals,
                        [ZeroProposalU64 EXCEPT
                            !.id            = governor.proposal_count,
                            !.proposer      = proposer,
                            !.description   = description,
                            !.proposal_type = proposal_type,
                            !.start_block   = r.start_block,
                            !.end_block     = r.end_block])
                   /\ governor' = count_incremented(governor)
                   /\ emitted' = Append(emitted, 0)
                   /\ result' = Outcome("create_proposal", Ok,
                                        Len(proposals) + 1, TRUE)
              ELSE /\ UNCHANGED <<governor, proposals, emitted>>
                   /\ result' = Outcome("create_proposal", r.outcome, 0,
                                        r.outcome = Panic)
        /\ UNCHANGED <<votes, clock, oracle>>

\* The require! of lib.rs:76-79 on u64 blocks.
voting_open_u64(proposal, slot) ==
    /\ AtLeast(U64(slot), proposal.start_block)
    /\ AtLeast(proposal.end_block, U64(slot))

\* A cast_vote transaction (lib.rs:66-102) on Proposal account p: the Vote
\* account is a fresh one.  A panic at lib.rs:89 or lib.rs:91 comes after the
\* writes of lib.rs:83-86.
CastVoteU64(p, voter, proposal_id, support, mode) ==
    LET pr     == proposals[p]
        weight == weight_u64(oracle, voter, pr.start_block)
        r      == tally_u64(IF support THEN pr.for_votes ELSE pr.against_votes,
                            weight, mode)
        open   == voting_open_u64(pr, clock)
    IN  /\ (open /\ r.outcome = Ok) => Room
        /\ IF ~open
              THEN /\ UNCHANGED <<proposals, votes>>
                   /\ result' = Outcome("cast_vote", "VotingPeriodInactive",
                                        p, FALSE)
           ELSE IF r.outcome # Ok
              THEN /\ UNCHANGED <<proposals, votes>>
                   /\ result' = Outcome("cast_vote", r.outcome, p, TRUE)
           ELSE /\ proposals' =
                     IF support
                        THEN [proposals EXCEPT ![p].for_votes = r.tally]
                        ELSE [proposals EXCEPT ![p].against_votes = r.tally]
                /\ votes' = Append(votes,
                        vote_written(ZeroVoteU64, voter, proposal_id, support,
                                     weight))
                /\ result' = Outcome("cast_vote", Ok, p, TRUE)
        /\ UNCHANGED <<governor, clock, oracle, emitted>>

\* An execute_proposal transaction (lib.rs:104-134) on Proposal account p.
ExecuteProposalU64(p, proposal_id, mode) ==
    LET pr      == proposals[p]
        found   == proposal_types_get(governor.proposal_types, pr.proposal_type)
        outcome ==
            IF pr.executed THEN "ProposalAlreadyExecuted"
            ELSE IF pr.canceled THEN "ProposalCanceled"
            ELSE IF ~Less(pr.end_block, U64(clock)) THEN "VotingPeriodActive"
            ELSE IF found = None THEN Panic
            ELSE execute_tally_u64(governor.total_supply, found[1],
                                   pr.for_votes, pr.against_votes, mode)
    IN  /\ IF outcome = Ok
              THEN /\ proposals' = [proposals EXCEPT ![p].executed = TRUE]
                   /\ emitted' = [emitted EXCEPT ![p] = emitted[p] + 1]
              ELSE UNCHANGED <<proposals, emitted>>
        /\ result' = Outcome("execute_proposal", outcome, p, outcome = Ok)
        /\ UNCHANGED <<governor, votes, clock, oracle>>

NextU64 ==
    \/ Tick
    \/ \E proposer \in Accounts \cup Electorate, description \in Descriptions,
          proposal_type \in TypeCodes, mode \in OverflowModes :
            CreateProposalU64(proposer, description, proposal_type, mode)
    \/ \E p \in DOMAIN proposals, voter \in Electorate,
          proposal_id \in ProposalIds, support \in BOOLEAN,
          mode \in OverflowModes :
            CastVoteU64(p, voter, proposal_id, support, mode)
    \/ \E p \in DOMAIN proposals, proposal_id \in ProposalIds,
          mode \in OverflowModes :
            ExecuteProposalU64(p, proposal_id, mode)

SpecU64 == InitU64 /\ [][NextU64]_vars

(***************************************************************************)
(* C20.  No u64 operation of a transaction overflows, so each result is    *)
(* the exact one: now + votingDelay and startTime + votingPeriod in        *)
(* createProposal (no transaction panics there, and endTime > startTime    *)
(* for a positive votingPeriod), the tally addition in castVote, and       *)
(* forVotes * 10000, forVotes + againstVotes and totalSupply * quorum in   *)
(* executeProposal, where a proposal becomes executed only if the exact    *)
(* totalCast >= quorumNeed and approvalPct >= approvalThreshold.           *)
(***************************************************************************)
C20_NoOverflow ==
    [][/\ result'.op = "create_proposal" =>
            /\ result'.outcome # Panic
            /\ result'.outcome = Ok =>
                  LET new == proposals'[result'.proposal]
                  IN  /\ Same(new.start_block,
                              Sum(U64(clock), governor.voting_delay))
                      /\ Same(new.end_block,
                              Sum(new.start_block, governor.voting_period))
                      /\ ~IsZero(governor.voting_period) =>
                            Less(new.start_block, new.end_block)
       /\ result'.op = "cast_vote" =>
            /\ result'.outcome # Panic
            /\ result'.outcome = Ok =>
                  LET p   == result'.proposal
                      new == votes'[Len(votes')]
                  IN  IF new.support
                         THEN Same(proposals'[p].for_votes,
                                   Sum(proposals[p].for_votes, new.weight))
                         ELSE Same(proposals'[p].against_votes,
                                   Sum(proposals[p].against_votes, new.weight))
       /\ (result'.op = "execute_proposal"
                /\ result'.outcome
                      \in {Ok, Panic, "QuorumNotReached",
                           "ApprovalThresholdNotMet"}) =>
            LET p     == result'.proposal
                pr    == proposals[p]
                info  == governor.proposal_types[pr.proposal_type + 1]
                total == Sum(pr.for_votes, pr.against_votes)
            IN  /\ Fits(Product(governor.total_supply, info.quorum))
                /\ Fits(Product(pr.for_votes, 10000))
                /\ Fits(total)
                /\ proposals'[p].executed =>
                      /\ AtLeast(total,
                            Quotient(Product(governor.total_supply, info.quorum),
                                     U64(10000)))
                      /\ AtLeast(Product(pr.for_votes, 10000),
                                 Product(total, info.approval_threshold))]_vars

====
